---- MODULE Spec2Model ----
(***************************************************************************)
(* Model of meme_search.py: the ISO-8601 duration parser, the YouTube      *)
(* Shorts lookup (filter, rank, truncate, swallow errors), the per-country *)
(* analysis run with its session state, export and rendering, and the URL  *)
(* preparation and the download loop of the bulk download.                 *)
(*                                                                         *)
(* Python strings are sequences of one-character strings.  A Python dict   *)
(* whose keys may be missing is a record with a field "keys" holding the   *)
(* keys that are present; reading a key that is not there is a KeyError.   *)
(***************************************************************************)
EXTENDS Integers, Sequences, FiniteSets, TLC

VARIABLES
    duration_str,        \* parse_iso8601_duration: the argument
    parsed,              \* parse_iso8601_duration: the outcome
    video_response,      \* get_youtube_shorts: video_response['items']
    shorts_pc,           \* get_youtube_shorts: "idle" | "returned" | "raised"
    shorts_fault,        \* get_youtube_shorts: the request that failed
    shorts_error,        \* get_youtube_shorts: the exception raised in the try
    shorts_out,          \* get_youtube_shorts: the returned list
    selected_countries,  \* main: the sidebar multiselect
    idx,                 \* main: countries processed so far
    results,             \* main: local results
    youtube_results,     \* main: local youtube_results
    trend_seen,          \* main: the trend response each country received
    lookups,             \* main: get_youtube_shorts calls made per country
    shown_errors,        \* main: countries st.error was called for
    session,             \* main: st.session_state
    trends_data,         \* main: rows of the exported keyword sheet
    rendered,            \* main: countries whose section has been rendered
    run_pc,              \* main: position in the script run
    df_urls,             \* main: the "url" column of the uploaded sheet
    video_links,         \* main: the prepared URL list
    url_pc,              \* main: "uploaded" | "prepared"
    dl_links,            \* main: video_links as the download loop walks it
    dl_idx,              \* main: idx of the download loop, 0 before it
    downloaded_count,    \* main: downloaded_count
    failed_list,         \* main: failed_list
    attempted,           \* main: the ydl.download calls made so far
    progress_percent,    \* main: what the progress bar shows
    dl_pc                \* main: "loop" | "done"

vars == <<duration_str, parsed, video_response, shorts_pc, shorts_fault,
          shorts_error, shorts_out, selected_countries, idx, results,
          youtube_results, trend_seen, lookups, shown_errors, session,
          trends_data, rendered, run_pc, df_urls, video_links, url_pc,
          dl_links, dl_idx, downloaded_count, failed_list, attempted,
          progress_percent, dl_pc>>

parseVars == <<duration_str, parsed>>
shortsVars == <<video_response, shorts_pc, shorts_fault, shorts_error,
               shorts_out>>
runVars == <<selected_countries, idx, results, youtube_results,
             trend_seen, lookups, shown_errors, session, trends_data,
             rendered, run_pc>>
urlVars == <<df_urls, video_links, url_pc>>
dlVars == <<dl_links, dl_idx, downloaded_count, failed_list, attempted,
            progress_percent, dl_pc>>

\* ---------------------------------------------------------------- bounds
MaxDigits == 2
MaxStrLen == 3
MaxItems == 6
MaxRising == 16
MaxRows == 2
MaxLinks == 4

\* ------------------------------------------------------- program constants
MaxResults == 5
ShortLimit == 60
MaxTrends == 15

\* ------------------------------------------------------------- strings
Min(a, b) == IF a < b THEN a ELSE b

Digits == {"0", "1", "2", "3", "4", "5", "6", "7", "8", "9"}

DigitVal(c) ==
    CASE c = "0" -> 0 [] c = "1" -> 1 [] c = "2" -> 2 [] c = "3" -> 3
      [] c = "4" -> 4 [] c = "5" -> 5 [] c = "6" -> 6 [] c = "7" -> 7
      [] c = "8" -> 8 [] c = "9" -> 9

IsDigits(s) == Len(s) > 0 /\ \A i \in 1..Len(s) : s[i] \in Digits

RECURSIVE DecimalValue(_)
DecimalValue(s) ==
    IF Len(s) = 0 THEN 0
    ELSE 10 * DecimalValue(SubSeq(s, 1, Len(s) - 1)) + DigitVal(s[Len(s)])

\* int(x) on a digit string; anything else is a ValueError
int(s) ==
    IF IsDigits(s) THEN [exc |-> "none", value |-> DecimalValue(s)]
    ELSE [exc |-> "ValueError", value |-> 0]

\* ------------------------------------------------ parse_iso8601_duration
\* \d+ is greedy: the position just after the run of digits starting at i
RECURSIVE DigitRunEnd(_, _)
DigitRunEnd(s, i) ==
    IF i <= Len(s) /\ s[i] \in Digits THEN DigitRunEnd(s, i + 1) ELSE i

\* (?:(\d+)U)? tried at position i, the digits ending before j: the group's
\* text and the position the match goes on from
UnitAt(s, i, j, unit) ==
    IF j > i /\ j <= Len(s) /\ s[j] = unit
    THEN [group |-> SubSeq(s, i, j - 1), next |-> j + 1]
    ELSE [group |-> <<>>, next |-> i]

OptionalUnit(s, i, unit) == UnitAt(s, i, DigitRunEnd(s, i), unit)

MatchObject(h, m, sec) ==
    [matched |-> TRUE, g1 |-> h.group, g2 |-> m.group, g3 |-> sec.group]

MatchSeconds(s, h, m) == MatchObject(h, m, OptionalUnit(s, m.next, "S"))

MatchMinutes(s, h) == MatchSeconds(s, h, OptionalUnit(s, h.next, "M"))

\* re.match(pattern, s): anchored at the start only; None when s lacks "PT"
re_match(s) ==
    IF Len(s) >= 2 /\ s[1] = "P" /\ s[2] = "T"
    THEN MatchMinutes(s, OptionalUnit(s, 3, "H"))
    ELSE [matched |-> FALSE, g1 |-> <<>>, g2 |-> <<>>, g3 |-> <<>>]

\* int(match.group(n)) if match and match.group(n) else 0
UnitValue(match, g) ==
    IF match.matched /\ Len(g) > 0 THEN int(g) ELSE [exc |-> "none", value |-> 0]

DurationSeconds_minutes(hours, minutes, seconds) ==
    hours * 60 + minutes * 60 + seconds

\* line 47
DurationSeconds(hours, minutes, seconds) ==
    hours * 3600 + minutes * 60 + seconds

\* lines 44-47, given the outcome of each int()
DurationOf(hours, minutes, seconds) ==
    IF hours.exc # "none" THEN hours
    ELSE IF minutes.exc # "none" THEN minutes
    ELSE IF seconds.exc # "none" THEN seconds
    ELSE [exc |-> "none",
          value |-> DurationSeconds(hours.value, minutes.value, seconds.value)]

DurationOfMatch(match) ==
    DurationOf(UnitValue(match, match.g1), UnitValue(match, match.g2),
               UnitValue(match, match.g3))

parse_iso8601_duration(s) == DurationOfMatch(re_match(s))

\* ------------------------------------------- inputs of the duration parser
Str(n, alphabet) == UNION {[1..k -> alphabet] : k \in 0..n}

NumberDigits == {"1", "2", "3"}
Numbers == {s \in Str(MaxDigits, NumberDigits) : Len(s) > 0}
OptionalPart(unit) == {<<>>} \cup {n \o <<unit>> : n \in Numbers}
Trailers == {<<>>, <<"X">>, <<"0">>}
DurationChars == {"P", "T", "H", "M", "S", "D", "0", "1", "X"}

DurationInputs ==
    {<<"P", "T">> \o h \o m \o s \o t :
        h \in OptionalPart("H"), m \in OptionalPart("M"),
        s \in OptionalPart("S"), t \in Trailers}
    \cup Str(MaxStrLen, DurationChars)
    \cup {<<"P", "T", "4", "5", "S">>}

NotCalled == [exc |-> "not called", value |-> 0]

ParseInit ==
    /\ duration_str \in DurationInputs
    /\ parsed = NotCalled

ParseDuration ==
    /\ parsed = NotCalled
    /\ parsed' = parse_iso8601_duration(duration_str)
    /\ UNCHANGED duration_str

\* ---------------------------------------------------- get_youtube_shorts
\* One entry of video_response['items'].  keys: the top-level keys present;
\* stat_keys: the keys present in video['statistics'].
Video(keys, duration, stat_keys, viewCount, likeCount) ==
    [id |-> 0, keys |-> keys, duration |-> duration, stat_keys |-> stat_keys,
     viewCount |-> viewCount, likeCount |-> likeCount]

AllKeys == {"contentDetails", "snippet", "statistics"}

Ok(v) == [exc |-> "none", value |-> v]
Raise(e) == [exc |-> e, value |-> <<>>]

\* int(video['statistics'].get(name, 0))
StatCount(video, name, text) ==
    IF "statistics" \notin video.keys THEN [exc |-> "KeyError", value |-> 0]
    ELSE IF name \notin video.stat_keys THEN [exc |-> "none", value |-> 0]
    ELSE int(text)

DurationFilter_above(duration) == duration >= ShortLimit

\* if duration <= 60
DurationFilter(duration) == duration <= ShortLimit

\* the dict literal of lines 82-90, given the outcome of each int()
InfoOf(video, views, likes) ==
    IF "snippet" \notin video.keys THEN Raise("KeyError")
    ELSE IF views.exc # "none" THEN Raise(views.exc)
    ELSE IF likes.exc # "none" THEN Raise(likes.exc)
    ELSE Ok([video_id |-> video.id, view_count |-> views.value,
             like_count |-> likes.value])

video_info(video) ==
    InfoOf(video, StatCount(video, "viewCount", video.viewCount),
           StatCount(video, "likeCount", video.likeCount))

\* lines 82-91: what is appended, or the exception
Appended(info) ==
    IF info.exc # "none" THEN [exc |-> info.exc, add |-> <<>>]
    ELSE [exc |-> "none", add |-> <<info.value>>]

\* lines 81-91, given the parsed duration
Filtered(video, duration) ==
    IF duration.exc # "none" THEN [exc |-> duration.exc, add |-> <<>>]
    ELSE IF DurationFilter(duration.value) THEN Appended(video_info(video))
    ELSE [exc |-> "none", add |-> <<>>]

\* lines 78-91: one pass of the loop body
VideoStep(video) ==
    IF "contentDetails" \notin video.keys THEN [exc |-> "KeyError", add |-> <<>>]
    ELSE Filtered(video, parse_iso8601_duration(video.duration))

\* for video in video_response['items']: ... videos.append(video_info)
RECURSIVE VideoLoop(_, _, _), AfterStep(_, _, _, _)
VideoLoop(items, i, videos) ==
    IF i > Len(items) THEN Ok(videos)
    ELSE AfterStep(items, i, videos, VideoStep(items[i]))

AfterStep(items, i, videos, step) ==
    IF step.exc # "none" THEN Raise(step.exc)
    ELSE VideoLoop(items, i + 1, videos \o step.add)

FilterVideos_firstN(items) ==
    VideoLoop(SubSeq(items, 1, Min(Len(items), MaxResults)), 1, <<>>)

FilterVideos(items) == VideoLoop(items, 1, <<>>)

RanksBefore_ascending(a, b) == a.view_count <= b.view_count

RanksBefore_unstable(a, b) == a.view_count > b.view_count

\* sorted(..., reverse=True) is stable: an element already placed stays ahead
\* of a later one unless the later one has strictly more views
RanksBefore(a, b) == a.view_count >= b.view_count

InsertAt(ranked, v, n) ==
    SubSeq(ranked, 1, n) \o <<v>> \o SubSeq(ranked, n + 1, Len(ranked))

InsertRanked(ranked, v) ==
    InsertAt(ranked, v,
             Cardinality({k \in 1..Len(ranked) : RanksBefore(ranked[k], v)}))

RECURSIVE SortFrom(_, _, _)
SortFrom(videos, i, ranked) ==
    IF i > Len(videos) THEN ranked
    ELSE SortFrom(videos, i + 1, InsertRanked(ranked, videos[i]))

\* sorted(videos, key=lambda x: x['view_count'], reverse=True)
sorted_by_views(videos) == SortFrom(videos, 1, <<>>)

\* [:max_results]
Truncate(ranked) == SubSeq(ranked, 1, Min(Len(ranked), MaxResults))

Faults == {"build", "search", "search_items", "detail", "detail_items"}

FaultException(fault) ==
    IF fault \in {"search_items", "detail_items"} THEN "KeyError" ELSE "HttpError"

\* line 94, given what the loop collected
Ranked(videos) ==
    IF videos.exc # "none" THEN videos
    ELSE Ok(Truncate(sorted_by_views(videos.value)))

\* the body of the try block
ShortsTry(fault, items) ==
    IF fault # "none" THEN Raise(FaultException(fault))
    ELSE Ranked(FilterVideos(items))

Caught_KeyError(exc) == exc = "KeyError"

\* except Exception
Caught(exc) == exc \in {"KeyError", "ValueError", "HttpError", "TypeError"}

\* lines 96-98: the except branch returns [], anything not caught goes on
Except(tried) == IF tried.exc # "none" /\ Caught(tried.exc) THEN Ok(<<>>) ELSE tried

get_youtube_shorts(fault, items) == Except(ShortsTry(fault, items))

\* ------------------------------------------- inputs of get_youtube_shorts
VideoTemplates ==
    { Video(AllKeys, <<"P", "T", "1", "M">>, {"viewCount", "likeCount"},
            <<"9">>, <<"1">>),
      Video(AllKeys, <<"P", "T", "4", "5", "S">>, {"viewCount", "likeCount"},
            <<"1", "0">>, <<"2">>),
      Video(AllKeys, <<"P", "T", "1", "M", "1", "S">>, {"viewCount"},
            <<"1", "1">>, <<>>),
      Video(AllKeys, <<"P", "1", "D">>, {}, <<>>, <<>>),
      Video(AllKeys, <<"P", "T", "4", "5", "S">>, {"viewCount", "likeCount"},
            <<"1", "M">>, <<"2">>) }

WithId(video, id) == [video EXCEPT !.id = id]

ShortsInit ==
    /\ video_response = <<>>
    /\ shorts_pc = "idle"
    /\ shorts_fault = "none"
    /\ shorts_error = "none"
    /\ shorts_out = <<>>

\* the API's detail response grows by one item
ApiListsVideo ==
    /\ shorts_pc = "idle"
    /\ Len(video_response) < MaxItems
    /\ \E t \in VideoTemplates :
         video_response' =
             Append(video_response, WithId(t, Len(video_response) + 1))
    /\ UNCHANGED <<shorts_pc, shorts_fault, shorts_error, shorts_out>>

\* the caller's view of a call: what the try block did, what came back
Returned(fault, tried, r) ==
    /\ shorts_pc' = IF r.exc = "none" THEN "returned" ELSE "raised"
    /\ shorts_out' = r.value
    /\ shorts_fault' = fault
    /\ shorts_error' = tried.exc

Call(fault, tried) == Returned(fault, tried, Except(tried))

\* one call of get_youtube_shorts; a failed request delivers no detail items
CallShorts ==
    /\ shorts_pc = "idle"
    /\ \E fault \in Faults \cup {"none"} :
         /\ fault # "none" => video_response = <<>>
         /\ Call(fault, ShortsTry(fault, video_response))
    /\ UNCHANGED video_response

\* ----------------------------------------------------------- main: the run
\* COUNTRY_QUERIES, by its geo codes
Countries == {"KR", "US", "JP"}

\* a dict: a function on the keys present
EmptyDict == <<>>
Put(d, k, v) == [x \in DOMAIN d \cup {k} |-> IF x = k THEN v ELSE d[x]]

QueryNames ==
    <<"q01", "q02", "q03", "q04", "q05", "q06", "q07", "q08", "q09", "q10",
      "q11", "q12", "q13", "q14", "q15", "q16", "q17", "q18", "q19", "q20">>

\* one element of related_queries.rising
RisingItem(keys, n) == [keys |-> keys, query |-> QueryNames[n], value |-> 50 * n]

\* the provider's rising array of length k, strongest rise first
RisingOf(k) == [i \in 1..k |-> RisingItem({"query", "value"}, k - i + 1)]

\* what requests.get returned: the status, and the keys and array of the JSON
TrendResponse(status, has_related, has_rising, rising) ==
    [status |-> status, has_related |-> has_related,
     has_rising |-> has_rising, rising |-> rising]

RisingLens == {0, 1, 2} \cup ((MaxTrends - 1)..MaxRising)

TrendResponses ==
    { TrendResponse("http_error", FALSE, FALSE, <<>>),
      TrendResponse("ok", FALSE, FALSE, <<>>),
      TrendResponse("ok", TRUE, FALSE, <<>>),
      TrendResponse("ok", TRUE, TRUE,
                    <<RisingItem({"query", "value"}, 2), RisingItem({"value"}, 1)>>) }
    \cup {TrendResponse("ok", TRUE, TRUE, RisingOf(k)) : k \in RisingLens}

Slice_all(rising) == rising

\* [:15]
Slice(rising) == SubSeq(rising, 1, Min(Len(rising), MaxTrends))

\* lines 172-177: raise_for_status, json, and the rising slice
rising_queries_of(resp) ==
    IF resp.status = "http_error" THEN Raise("HTTPError")
    ELSE IF resp.has_related /\ resp.has_rising /\ Len(resp.rising) > 0
         THEN Ok(Slice(resp.rising))
         ELSE Ok(<<>>)

\* lines 180-183: the list comprehension reads item["query"], item["value"]
RisingRows(rising_queries) ==
    IF \E i \in 1..Len(rising_queries) :
         ~({"query", "value"} \subseteq rising_queries[i].keys)
    THEN Raise("KeyError")
    ELSE Ok([i \in 1..Len(rising_queries) |->
               [query |-> rising_queries[i].query,
                value |-> rising_queries[i].value]])

ResultEntry(rows) ==
    [keys |-> {"rising_related_queries"}, rising_related_queries |-> rows,
     error |-> "none"]

ErrorEntry(exc) ==
    [keys |-> {"error"}, rising_related_queries |-> <<>>, error |-> exc]

\* the answers of the YouTube API to a term: what fails, and the detail items
Numbered(items) == [i \in 1..Len(items) |-> WithId(items[i], i)]

ShortVideo(views) ==
    Video(AllKeys, <<"P", "T", "4", "5", "S">>, {"viewCount", "likeCount"},
          views, <<"3">>)

LongVideo(views) ==
    Video(AllKeys, <<"P", "T", "1", "M", "1", "S">>, {"viewCount", "likeCount"},
          views, <<"3">>)

YouTubeAnswers ==
    << [fault |-> "search", items |-> <<>>],
       [fault |-> "none",
        items |-> Numbered(<<LongVideo(<<"1", "1">>), ShortVideo(<<"9">>),
                             ShortVideo(<<"1", "0">>)>>)],
       [fault |-> "none",
        items |-> Numbered(<<ShortVideo(<<"9">>), ShortVideo(<<"1", "M">>)>>)] >>

QueryNumber(query) == CHOOSE n \in 1..Len(QueryNames) : QueryNames[n] = query

\* which answer a term gets: the three kinds take turns along the terms
YouTubeAnswer(query) ==
    YouTubeAnswers[(QueryNumber(query) % Len(YouTubeAnswers)) + 1]

ShortsFor(answer) == get_youtube_shorts(answer.fault, answer.items)

\* lines 189-194: for item in rising_queries: youtube_results[country][q] = ...
RECURSIVE ShortsLoop(_, _, _), AfterLookup(_, _, _, _)
ShortsLoop(rising_queries, i, found) ==
    IF i > Len(rising_queries)
    THEN [exc |-> "none", value |-> found, calls |-> i - 1]
    ELSE AfterLookup(rising_queries, i, found,
                     ShortsFor(YouTubeAnswer(rising_queries[i].query)))

AfterLookup(rising_queries, i, found, shorts_data) ==
    IF shorts_data.exc # "none"
    THEN [exc |-> shorts_data.exc, value |-> found, calls |-> i]
    ELSE ShortsLoop(rising_queries, i + 1,
                    Put(found, rising_queries[i].query, shorts_data.value))

OnError_reset(res, country, exc) == Put(EmptyDict, country, ErrorEntry(exc))

\* except Exception as e: results[country] = {"error": str(e)}
OnError(res, country, exc) == Put(res, country, ErrorEntry(exc))

Failed(res, yt, country, exc, calls) ==
    [results |-> OnError(res, country, exc), youtube_results |-> yt,
     calls |-> calls, exc |-> exc]

\* lines 188-198, given what the loop over the terms did
WithVideos(res, yt, country, rows, found) ==
    IF found.exc # "none"
    THEN Failed(Put(res, country, ResultEntry(rows)),
                Put(yt, country, found.value), country, found.exc, found.calls)
    ELSE [results |-> Put(res, country, ResultEntry(rows)),
          youtube_results |-> Put(yt, country, found.value),
          calls |-> found.calls, exc |-> "none"]

\* lines 179-198, given the rows of the list comprehension
WithRows(res, yt, country, rising_queries, rows) ==
    IF rows.exc # "none" THEN Failed(res, yt, country, rows.exc, 0)
    ELSE WithVideos(res, yt, country, rows.value,
                    ShortsLoop(rising_queries, 1, EmptyDict))

\* lines 177-198, given the outcome of the request
WithRising(res, yt, country, rising) ==
    IF rising.exc # "none" THEN Failed(res, yt, country, rising.exc, 0)
    ELSE WithRows(res, yt, country, rising.value, RisingRows(rising.value))

\* lines 158-198: one iteration of the loop over the selected countries
CountryIteration(res, yt, country, resp) ==
    WithRising(res, yt, country, rising_queries_of(resp))

Selections ==
    {s \in Str(Cardinality(Countries), Countries) :
        \A i, j \in 1..Len(s) : i # j => s[i] # s[j]}

FreshSession ==
    [results |-> EmptyDict, youtube_results |-> EmptyDict,
     analysis_complete |-> FALSE]

RunInit ==
    /\ selected_countries \in Selections
    /\ idx = 0
    /\ results = EmptyDict
    /\ youtube_results = EmptyDict
    /\ trend_seen = EmptyDict
    /\ lookups = EmptyDict
    /\ shown_errors = {}
    /\ session = FreshSession
    /\ trends_data = <<>>
    /\ rendered = <<>>
    /\ run_pc = "loop"

\* what one iteration leaves behind
Iterated(country, resp, it) ==
    /\ results' = it.results
    /\ youtube_results' = it.youtube_results
    /\ lookups' = Put(lookups, country, it.calls)
    /\ trend_seen' = Put(trend_seen, country, resp)
    /\ shown_errors' = IF it.exc # "none" THEN shown_errors \cup {country}
                       ELSE shown_errors

Iterate(country, resp) ==
    Iterated(country, resp,
             CountryIteration(results, youtube_results, country, resp))

\* lines 157-201
ProcessCountry ==
    /\ run_pc = "loop"
    /\ idx < Len(selected_countries)
    /\ \E resp \in TrendResponses : Iterate(selected_countries[idx + 1], resp)
    /\ idx' = idx + 1
    /\ UNCHANGED <<selected_countries, session, trends_data, rendered, run_pc>>

\* the dict's keys in insertion order: countries are entered in loop order
KeyOrder(d) == SelectSeq(selected_countries, LAMBDA c : c \in DOMAIN d)

\* lines 241-248: data.get("rising_related_queries", [])
RECURSIVE ExportRows(_, _, _)
ExportRows(res, order, i) ==
    IF i > Len(order) THEN <<>>
    ELSE LET data == res[order[i]]
             rows == IF "rising_related_queries" \in data.keys
                     THEN data.rising_related_queries ELSE <<>>
         IN  [k \in 1..Len(rows) |->
                [Country |-> order[i], RelatedQuery |-> rows[k].query,
                 Value |-> rows[k].value]]
             \o ExportRows(res, order, i + 1)

\* lines 203-343: the session state update and the export in its try block
FinishAnalysis ==
    /\ run_pc = "loop"
    /\ idx = Len(selected_countries)
    /\ session' = [results |-> results, youtube_results |-> youtube_results,
                   analysis_complete |-> TRUE]
    /\ trends_data' = ExportRows(results, KeyOrder(results), 1)
    /\ run_pc' = "render"
    /\ UNCHANGED <<selected_countries, idx, results,
                   youtube_results, trend_seen, lookups, shown_errors, rendered>>

\* lines 348-382: the section of the next country of st.session_state.results;
\* results[country]["rising_related_queries"] is read without a default
RenderCountry ==
    /\ run_pc = "render"
    /\ session.analysis_complete
    /\ Len(rendered) < Len(KeyOrder(session.results))
    /\ LET country == KeyOrder(session.results)[Len(rendered) + 1] IN
       IF "rising_related_queries" \in session.results[country].keys
       THEN /\ rendered' = Append(rendered, country)
            /\ run_pc' = "render"
       ELSE /\ rendered' = rendered
            /\ run_pc' = "crashed"
    /\ UNCHANGED <<selected_countries, idx, results,
                   youtube_results, trend_seen, lookups, shown_errors, session,
                   trends_data>>

\* lines 384-395: the loop is over, the script goes on to the download section
RenderDone ==
    /\ run_pc = "render"
    /\ Len(rendered) = Len(KeyOrder(session.results))
    /\ run_pc' = "done"
    /\ UNCHANGED <<selected_countries, idx, results,
                   youtube_results, trend_seen, lookups, shown_errors, session,
                   trends_data, rendered>>

\* ------------------------------------------- main: the bulk download URLs
\* A URL is a sequence of pieces; "/" is always a piece of its own and no
\* other piece holds one, so splitting on "/" and looking for
\* "youtube.com/shorts/" work on pieces as they do on characters.
Schemes == {<<"https:", "/", "/">>, <<>>}
Hosts == {<<"youtube.com">>, <<"www.", "youtube.com">>}
VideoIds == {"XYZ", "a1B2c3"}
ShortsTails == {<<>>, <<"?feature=share">>, <<"/">>}

\* a cell of the "url" column: kind is "str", "nan" (empty) or "int";
\* form and video_id tell how a string cell was composed
Cell(kind, text, form, video_id) ==
    [kind |-> kind, text |-> text, form |-> form, video_id |-> video_id]

ShortsCells ==
    {Cell("str", s \o h \o <<"/", "shorts", "/", v>> \o t, "shorts", v) :
        s \in Schemes, h \in Hosts, v \in VideoIds, t \in ShortsTails}

WatchCells ==
    {Cell("str", s \o h \o <<"/", "watch?v=", v>>, "watch", v) :
        s \in Schemes, h \in Hosts, v \in VideoIds}

UrlCells ==
    ShortsCells \cup WatchCells
    \cup {Cell("nan", <<>>, "none", ""), Cell("int", <<>>, "none", "")}

\* "youtube.com/shorts/" in url
ContainsShorts(url) ==
    \E i \in 1..Len(url) :
        /\ i + 3 <= Len(url)
        /\ SubSeq(url, i, i + 3) = <<"youtube.com", "/", "shorts", "/">>

\* url.split("/")[-1]: what follows the last "/"
LastSegment(url) ==
    LET slashes == {i \in 1..Len(url) : url[i] = "/"}
        last == IF slashes = {} THEN 0
                ELSE CHOOSE i \in slashes : \A j \in slashes : j <= i
    IN  SubSeq(url, last + 1, Len(url))

WatchUrl(video_id) ==
    <<"https:", "/", "/", "www.", "youtube.com", "/", "watch?v=">> \o video_id

\* lines 413-420
RECURSIVE PrepareLinks(_, _, _)
PrepareLinks(rows, i, links) ==
    IF i > Len(rows) THEN links
    ELSE LET url == rows[i].text IN
         IF rows[i].kind # "str" THEN PrepareLinks(rows, i + 1, links)
         ELSE IF ContainsShorts(url)
         THEN PrepareLinks(rows, i + 1, Append(links, WatchUrl(LastSegment(url))))
         ELSE PrepareLinks(rows, i + 1, Append(links, url))

UrlInit ==
    /\ df_urls \in Str(MaxRows, UrlCells)
    /\ video_links = <<>>
    /\ url_pc = "uploaded"

\* the download button: the URL list is prepared from the sheet
PrepareUrls ==
    /\ url_pc = "uploaded"
    /\ video_links' = PrepareLinks(df_urls, 1, <<>>)
    /\ url_pc' = "prepared"
    /\ UNCHANGED df_urls

\* ------------------------------------------ main: the bulk download loop
\* what yt-dlp does with a link: it downloads it, or ydl.download raises
DownloadOutcomes == {"ok", "DownloadError"}

\* the links the loop may be handed: prepared URLs, the same one twice too
DownloadLinks ==
    {WatchUrl(<<v>>) : v \in VideoIds} \cup {<<"youtube.com", "/", "watch?v=", "XYZ">>}

TryDownload_countFirst(count, failed, link, outcome) ==
    [downloaded_count |-> count + 1,
     failed_list |-> IF outcome = "ok" THEN failed
                     ELSE Append(failed, [url |-> link, error_msg |-> outcome])]

\* lines 446-451: the try block counts a download that did not raise, the
\* except branch records the link and the message
TryDownload(count, failed, link, outcome) ==
    IF outcome = "ok"
    THEN [downloaded_count |-> count + 1, failed_list |-> failed]
    ELSE [downloaded_count |-> count,
          failed_list |-> Append(failed, [url |-> link, error_msg |-> outcome])]

\* line 453: int(idx / num_videos * 100)
ProgressPercent(i, num_videos) == (i * 100) \div num_videos

DownloadInit ==
    /\ dl_links \in Str(MaxLinks, DownloadLinks)
    /\ dl_idx = 0
    /\ downloaded_count = 0
    /\ failed_list = <<>>
    /\ attempted = <<>>
    /\ progress_percent = 0
    /\ dl_pc = "loop"

\* what one pass of the loop leaves behind
Downloaded(link, outcome, after) ==
    /\ downloaded_count' = after.downloaded_count
    /\ failed_list' = after.failed_list
    /\ attempted' = Append(attempted, [idx |-> dl_idx + 1, url |-> link,
                                        outcome |-> outcome])
    /\ progress_percent' = ProgressPercent(dl_idx + 1, Len(dl_links))
    /\ dl_idx' = dl_idx + 1

\* lines 445-454: one pass of the loop over video_links
DownloadLink ==
    /\ dl_pc = "loop"
    /\ dl_idx < Len(dl_links)
    /\ \E outcome \in DownloadOutcomes :
         Downloaded(dl_links[dl_idx + 1], outcome,
                    TryDownload(downloaded_count, failed_list,
                                dl_links[dl_idx + 1], outcome))
    /\ UNCHANGED <<dl_links, dl_pc>>

\* line 456: the loop is over, the batch is reported
DownloadsDone ==
    /\ dl_pc = "loop"
    /\ dl_idx = Len(dl_links)
    /\ dl_pc' = "done"
    /\ UNCHANGED <<dl_links, dl_idx, downloaded_count, failed_list, attempted,
                   progress_percent>>

\* ------------------------------------------------------- specifications
ParseOff == duration_str = <<>> /\ parsed = [exc |-> "off", value |-> 0]

ShortsOff ==
    /\ video_response = <<>>
    /\ shorts_pc = "off"
    /\ shorts_fault = "none"
    /\ shorts_error = "none"
    /\ shorts_out = <<>>

RunOff ==
    /\ selected_countries = <<>>
    /\ idx = 0
    /\ results = EmptyDict
    /\ youtube_results = EmptyDict
    /\ trend_seen = EmptyDict
    /\ lookups = EmptyDict
    /\ shown_errors = {}
    /\ session = FreshSession
    /\ trends_data = <<>>
    /\ rendered = <<>>
    /\ run_pc = "off"

UrlOff == df_urls = <<>> /\ video_links = <<>> /\ url_pc = "off"

DownloadOff ==
    /\ dl_links = <<>>
    /\ dl_idx = 0
    /\ downloaded_count = 0
    /\ failed_list = <<>>
    /\ attempted = <<>>
    /\ progress_percent = 0
    /\ dl_pc = "off"

\* parse_iso8601_duration on its own
InitParse == ParseInit /\ ShortsOff /\ RunOff /\ UrlOff /\ DownloadOff
NextParse == ParseDuration /\ UNCHANGED <<shortsVars, runVars, urlVars, dlVars>>
SpecParse == InitParse /\ [][NextParse]_vars

\* get_youtube_shorts on its own
InitShorts == ParseOff /\ ShortsInit /\ RunOff /\ UrlOff /\ DownloadOff
NextShorts ==
    \/ ApiListsVideo /\ UNCHANGED <<parseVars, runVars, urlVars, dlVars>>
    \/ CallShorts /\ UNCHANGED <<parseVars, runVars, urlVars, dlVars>>
SpecShorts == InitShorts /\ [][NextShorts]_vars

\* one analysis run of main
InitRun == ParseOff /\ ShortsOff /\ RunInit /\ UrlOff /\ DownloadOff
NextRun ==
    \/ ProcessCountry /\ UNCHANGED <<parseVars, shortsVars, urlVars, dlVars>>
    \/ FinishAnalysis /\ UNCHANGED <<parseVars, shortsVars, urlVars, dlVars>>
    \/ RenderCountry /\ UNCHANGED <<parseVars, shortsVars, urlVars, dlVars>>
    \/ RenderDone /\ UNCHANGED <<parseVars, shortsVars, urlVars, dlVars>>
SpecRun == InitRun /\ [][NextRun]_vars

\* the URL preparation of the bulk download
InitUrl == ParseOff /\ ShortsOff /\ RunOff /\ UrlInit /\ DownloadOff
NextUrl == PrepareUrls /\ UNCHANGED <<parseVars, shortsVars, runVars, dlVars>>
SpecUrl == InitUrl /\ [][NextUrl]_vars

\* the download loop of the bulk download
InitDownload == ParseOff /\ ShortsOff /\ RunOff /\ UrlOff /\ DownloadInit
NextDownload ==
    \/ DownloadLink /\ UNCHANGED <<parseVars, shortsVars, runVars, urlVars>>
    \/ DownloadsDone /\ UNCHANGED <<parseVars, shortsVars, runVars, urlVars>>
SpecDownload == InitDownload /\ [][NextDownload]_vars

\* get_youtube_shorts on its own and as the run calls it
SpecPipeline == (InitShorts \/ InitRun) /\ [][NextShorts \/ NextRun]_vars

\* ------------------------------------------------------------- properties
\* the parsed duration of a detail item, as line 78 computes it
ParsedSeconds(item) == parse_iso8601_duration(item.duration).value

\* the view count of a detail item, as line 85 computes it
ItemViews(item) == StatCount(item, "viewCount", item.viewCount).value

Qualifying(items) == {i \in 1..Len(items) : ParsedSeconds(items[i]) <= 60}

ReturnedIds(out) == {out[k].video_id : k \in 1..Len(out)}

\* every video of a list comes from an item of at most 60 seconds
AllShort(list, items) ==
    \A k \in 1..Len(list) : ParsedSeconds(items[list[k].video_id]) <= 60

ReportAllShort(yt) ==
    \A c \in DOMAIN yt : \A q \in DOMAIN yt[c] :
        AllShort(yt[c][q], YouTubeAnswer(q).items)

\* C1: every video get_youtube_shorts returns has a parsed duration of at
\* most 60 seconds, no item parsed to more than 60 seconds is returned, and
\* so every video stored in the Report (the run's youtube_results and the
\* session's) comes from an item of at most 60 seconds.
C1_OnlyShortVideos ==
    /\ shorts_pc = "returned" =>
         /\ AllShort(shorts_out, video_response)
         /\ \A i \in 1..Len(video_response) :
              ParsedSeconds(video_response[i]) > 60
                  => i \notin ReturnedIds(shorts_out)
    /\ ReportAllShort(youtube_results)
    /\ ReportAllShort(session.youtube_results)

\* a call that returned videos although a longer item was in the response
C1_Witness ==
    /\ shorts_pc = "returned"
    /\ Len(shorts_out) > 0
    /\ \E i \in 1..Len(video_response) : ParsedSeconds(video_response[i]) > 60

\* C2: the returned list is in non-increasing order of view_count and has at
\* most 5 entries.
C2_RankedTopFive ==
    shorts_pc = "returned" =>
        /\ Len(shorts_out) <= 5
        /\ \A k \in 1..(Len(shorts_out) - 1) :
             shorts_out[k].view_count >= shorts_out[k + 1].view_count

\* six qualifying items with different view counts were cut to five
C2_Witness ==
    /\ shorts_pc = "returned"
    /\ Cardinality(Qualifying(video_response)) > 5
    /\ Len(shorts_out) = 5
    /\ shorts_out[1].view_count > shorts_out[5].view_count

\* C3: videos with equal view_count keep the order of the detail response,
\* and of tied candidates at the cut-off the earlier ones are kept.
C3_TiesInApiOrder ==
    shorts_pc = "returned" /\ shorts_error = "none" =>
        /\ \A k, l \in 1..Len(shorts_out) :
             k < l /\ shorts_out[k].view_count = shorts_out[l].view_count
                 => shorts_out[k].video_id < shorts_out[l].video_id
        /\ \A i \in Qualifying(video_response) \ ReturnedIds(shorts_out) :
             \A k \in 1..Len(shorts_out) :
                 shorts_out[k].view_count = ItemViews(video_response[i])
                     => shorts_out[k].video_id < i

\* a tie in view_count straddles the cut-off
C3_Witness ==
    /\ shorts_pc = "returned"
    /\ shorts_error = "none"
    /\ Len(shorts_out) = 5
    /\ \E i \in Qualifying(video_response) \ ReturnedIds(shorts_out) :
         ItemViews(video_response[i]) = shorts_out[5].view_count

\* C4: when no error is raised, the result holds min(5, number of items of
\* at most 60 seconds) videos, all of them qualifying, and no qualifying item
\* left out has more views than a returned one.
C4_TopOfQualifying ==
    shorts_pc = "returned" /\ shorts_error = "none" =>
        /\ Len(shorts_out) = Min(5, Cardinality(Qualifying(video_response)))
        /\ ReturnedIds(shorts_out) \subseteq Qualifying(video_response)
        /\ \A i \in Qualifying(video_response) \ ReturnedIds(shorts_out) :
             \A k \in 1..Len(shorts_out) :
                 ItemViews(video_response[i]) <= shorts_out[k].view_count

\* a longer video with the most views sits among the first five items, and
\* five videos are returned all the same
C4_Witness ==
    /\ shorts_pc = "returned"
    /\ shorts_error = "none"
    /\ Len(shorts_out) = 5
    /\ \E i \in 1..5 :
         /\ ParsedSeconds(video_response[i]) > 60
         /\ ItemViews(video_response[i]) > shorts_out[1].view_count

\* the countries the loop has been through
Processed == {selected_countries[i] : i \in 1..idx}

\* the trend fetch of a country raises: HTTP error status, or an item among the first 15 without its "query" or "value"
TrendFetchFails(resp) ==
    \/ resp.status # "ok"
    \/ /\ resp.has_related /\ resp.has_rising
       /\ \E i \in 1..Min(15, Len(resp.rising)) :
            ~({"query", "value"} \subseteq resp.rising[i].keys)

ReportsNoRising(resp) ==
    /\ resp.status = "ok"
    /\ ~resp.has_related \/ ~resp.has_rising \/ resp.rising = <<>>

HasRows(entry) == "rising_related_queries" \in entry.keys

\* the stored rows are the first 15 entries of the provider's array, in order
FirstFifteen(rows, resp) ==
    /\ Len(rows) <= 15
    /\ Len(rows) = Min(15, Len(resp.rising))
    /\ \A k \in 1..Len(rows) :
         /\ rows[k].query = resp.rising[k].query
         /\ rows[k].value = resp.rising[k].value

TrendListCapped(res) ==
    \A c \in DOMAIN res :
        /\ HasRows(res[c]) =>
             /\ Len(res[c].rising_related_queries) <= 15
             /\ IF ReportsNoRising(trend_seen[c])
                THEN res[c].rising_related_queries = <<>>
                ELSE FirstFifteen(res[c].rising_related_queries, trend_seen[c])
        /\ ReportsNoRising(trend_seen[c]) => HasRows(res[c])

\* C5: the stored rising queries of a country are at most 15, they are the
\* first 15 entries of the provider's array in its order, the list is empty
\* when the provider reports none, and at most 15 terms are looked up.
C5_TrendListCapped ==
    /\ TrendListCapped(results)
    /\ TrendListCapped(session.results)
    /\ \A c \in DOMAIN lookups : lookups[c] <= 15

\* the provider sent more than 15 rising queries and 15 were kept and looked up
C5_Witness ==
    \E c \in DOMAIN results :
        /\ Len(trend_seen[c].rising) > 15
        /\ HasRows(results[c])
        /\ Len(results[c].rising_related_queries) = 15
        /\ lookups[c] = 15

\* the Report entry a response gives in a run over that one country
AloneReport(it) ==
    [entry |-> it.results["KR"],
     videos |-> IF "KR" \in DOMAIN it.youtube_results
                THEN it.youtube_results["KR"] ELSE EmptyDict]

AloneRun(resp) == AloneReport(CountryIteration(EmptyDict, EmptyDict, "KR", resp))

Alone == [resp \in TrendResponses |-> AloneRun(resp)]

UnaffectedByOthers(res, yt) ==
    \A b \in Processed :
        IF TrendFetchFails(trend_seen[b])
        THEN /\ b \in DOMAIN res
             /\ res[b].keys = {"error"}
             /\ b \notin DOMAIN yt
        ELSE /\ b \in DOMAIN res
             /\ b \in DOMAIN yt
             /\ res[b] = Alone[trend_seen[b]].entry
             /\ yt[b] = Alone[trend_seen[b]].videos
             /\ HasRows(res[b])

\* C6: the Report entry of every country whose trend fetch did not fail is
\* present and is what that country's response gives on its own, whatever
\* happened to the countries before and after it; a country whose fetch
\* failed has the error in its entry and no results.
C6_FailureIsolated ==
    /\ UnaffectedByOthers(results, youtube_results)
    /\ run_pc \in {"render", "done", "crashed"} =>
         /\ session.results = results
         /\ session.youtube_results = youtube_results

\* the second of three countries failed; the first and the third have results
C6_Witness ==
    /\ Len(selected_countries) = 3
    /\ session.analysis_complete
    /\ TrendFetchFails(trend_seen[selected_countries[2]])
    /\ \A i \in {1, 3} :
         /\ ~TrendFetchFails(trend_seen[selected_countries[i]])
         /\ Len(session.results[selected_countries[i]].rising_related_queries) > 0
         /\ \E q \in DOMAIN session.youtube_results[selected_countries[i]] :
              Len(session.youtube_results[selected_countries[i]][q]) > 0

\* the terms whose lookup fails inside get_youtube_shorts
FailingQueries ==
    {QueryNames[n] : n \in {m \in 1..Len(QueryNames) :
        ShortsTry(YouTubeAnswer(QueryNames[m]).fault,
                  YouTubeAnswer(QueryNames[m]).items).exc # "none"}}

LookupFails(query) == query \in FailingQueries

\* C7: an error raised inside get_youtube_shorts is caught there and the
\* empty list is returned, never an exception; in a run, a country whose
\* trend fetch succeeded keeps its result entry and has a video list for
\* every one of its terms, the terms after a failed lookup included.
C7_LookupErrorsSwallowed ==
    /\ shorts_pc # "raised"
    /\ shorts_pc = "returned" /\ shorts_error # "none" => shorts_out = <<>>
    /\ \A c \in Processed :
         ~TrendFetchFails(trend_seen[c]) =>
             /\ c \in DOMAIN results /\ HasRows(results[c])
             /\ c \notin shown_errors
             /\ c \in DOMAIN youtube_results
             /\ DOMAIN youtube_results[c] =
                    {results[c].rising_related_queries[k].query :
                        k \in 1..Len(results[c].rising_related_queries)}
             /\ lookups[c] = Len(results[c].rising_related_queries)
             /\ \A q \in DOMAIN youtube_results[c] :
                    LookupFails(q) => youtube_results[c][q] = <<>>

\* a country's first lookup failed and a later one brought videos
C7_Witness ==
    \E c \in Processed :
        /\ HasRows(results[c])
        /\ Len(results[c].rising_related_queries) > 2
        /\ LookupFails(results[c].rising_related_queries[1].query)
        /\ \E k \in 2..Len(results[c].rising_related_queries) :
             Len(youtube_results[c][results[c].rising_related_queries[k].query]) > 0

\* the strings of the form PT[nH][nM][nS]: "PT", then digits and the unit
\* letters H, M, S only, every letter right after a digit, the letters in
\* the order H, M, S with none repeated, and a letter at the end
UnitRank(c) == CASE c = "H" -> 1 [] c = "M" -> 2 [] c = "S" -> 3

UnitPositions(s) == {j \in 3..Len(s) : s[j] \in {"H", "M", "S"}}

IsDurationForm(s) ==
    /\ Len(s) >= 2 /\ s[1] = "P" /\ s[2] = "T"
    /\ \A j \in 3..Len(s) : s[j] \in Digits \cup {"H", "M", "S"}
    /\ \A j \in UnitPositions(s) : j > 3 /\ s[j - 1] \in Digits
    /\ \A j, k \in UnitPositions(s) : j < k => UnitRank(s[j]) < UnitRank(s[k])
    /\ Len(s) > 2 => Len(s) \in UnitPositions(s)

\* the number in front of a unit letter of such a string; 0 without the unit
UnitAmount(s, unit) ==
    IF \E j \in UnitPositions(s) : s[j] = unit
    THEN LET j == CHOOSE p \in UnitPositions(s) : s[p] = unit
             before == {2} \cup {p \in UnitPositions(s) : p < j}
             start == (CHOOSE p \in before : \A o \in before : o <= p) + 1
         IN  DecimalValue(SubSeq(s, start, j - 1))
    ELSE 0

FormSeconds(s) ==
    3600 * UnitAmount(s, "H") + 60 * UnitAmount(s, "M") + UnitAmount(s, "S")

\* the pattern matches nowhere at the start of s: re.match finds nothing
NoPrefixOfForm(s) ==
    \A k \in 0..Len(s) : ~IsDurationForm(SubSeq(s, 1, k))

C9_RunSurvivesTrendError ==
    shown_errors # {} => run_pc # "crashed"

\* what the claim expects of a cell: the canonical watch URL of the video of
\* a shorts URL, a watch URL as it is
ExpectedLink(cell) ==
    IF cell.form = "shorts" THEN WatchUrl(<<cell.video_id>>) ELSE cell.text

StringCells(rows) == SelectSeq(rows, LAMBDA cell : cell.kind = "str")

\* C10: the prepared list holds, for the string cells in order, the
\* canonical watch URL of the video of every shorts URL and every watch URL
\* unchanged; cells that are empty or no string are skipped.
C10_UrlsNormalized ==
    url_pc = "prepared" =>
        /\ Len(video_links) = Len(StringCells(df_urls))
        /\ \A i \in 1..Len(video_links) :
             video_links[i] = ExpectedLink(StringCells(df_urls)[i])

\* the positions of the attempts that were downloaded, and that failed
DownloadedAt == {k \in 1..Len(attempted) : attempted[k].outcome = "ok"}

FailedAttempts == SelectSeq(attempted, LAMBDA a : a.outcome # "ok")

\* C11: the links are attempted one at a time in list order, each exactly
\* once; a failed download leaves the loop running; every attempt is either
\* counted in downloaded_count or recorded in failed_list, never both, and
\* when the batch is over downloaded_count + len(failed_list) is the number
\* of links.
C11_EveryLinkOnce ==
    /\ dl_pc \in {"off", "loop", "done"}
    /\ Len(attempted) = dl_idx
    /\ dl_idx <= Len(dl_links)
    /\ \A k \in 1..Len(attempted) :
         attempted[k].idx = k /\ attempted[k].url = dl_links[k]
    /\ downloaded_count = Cardinality(DownloadedAt)
    /\ Len(failed_list) = Len(FailedAttempts)
    /\ \A k \in 1..Len(failed_list) : failed_list[k].url = FailedAttempts[k].url
    /\ downloaded_count + Len(failed_list) = dl_idx
    /\ dl_pc = "done" =>
         /\ dl_idx = Len(dl_links)
         /\ downloaded_count + Len(failed_list) = Len(dl_links)

\* a batch is over in which the first download failed and a later one, of
\* the same link, succeeded
C11_Witness ==
    /\ dl_pc = "done"
    /\ Len(dl_links) >= 3
    /\ attempted[1].outcome = "DownloadError"
    /\ \E k \in 2..Len(attempted) :
         attempted[k].outcome = "ok" /\ attempted[k].url = attempted[1].url
    /\ downloaded_count > 0
    /\ Len(failed_list) > 0

====
